---- MODULE Spec2Model ----
(***************************************************************************)
(* Doro voice assistant: the command interpreter processCommand of the two *)
(* App components of the repository.                                       *)
(*   "webview" : src/Doro/App.js        (WebView speech, contacts access)  *)
(*   "voice"   : src/unnamed/part_000   (native Voice, open/time/date...)  *)
(* A JavaScript string is a sequence of one-character strings, so that     *)
(* includes, match, trim, replace and toLowerCase are computed character   *)
(* by character.                                                           *)
(* Spec runs processCommand alone, on every utterance of a pool; AppSpec   *)
(* runs it inside the App, started from the text box and from speech       *)
(* results; AppLive adds the fairness of the recognition facility.         *)
(***************************************************************************)
EXTENDS Naturals, Sequences, FiniteSets, TLC

VARIABLES
    variant,                    \* which App component runs
    platform,                   \* Platform.OS
    utterance,                  \* the text the user says or types in this run
    contactsRequest,            \* Contacts.requestPermissionsAsync: pending or settled
    contactsPermissionGranted,  \* useState(false), src/Doro/App.js
    response,                   \* useState('Hello! I am Doro. ...')
    isLoading,                  \* useState(false)
    calls,                      \* the invocations of processCommand, oldest first
    command,                    \* useState(''): the text of the input box
    isListening,                \* useState(false)
    isSpeaking,                 \* useState(false)
    nativeMicPermissionGranted, \* useState(false), src/Doro/App.js
    webViewMicPermissionGranted,\* useState(false), src/Doro/App.js
    micRequest,                 \* Audio.requestPermissionsAsync: pending or settled
    webView,                    \* the page of the hidden WebView: loading, ready, unsupported
    session,                    \* the recognition session: idle, starting, active, hearing
    stopRequest,                \* the promise of Voice.stop(): none or pending
    playbacks,                  \* Speech.speak playbacks begun and not yet done
    listens                     \* how often startListening has run

\* the state of the Speech and recognition plumbing around processCommand
ui == <<command, isListening, isSpeaking, nativeMicPermissionGranted,
        webViewMicPermissionGranted, micRequest, webView, session,
        stopRequest, playbacks, listens>>

vars == <<variant, platform, utterance, contactsRequest,
          contactsPermissionGranted, response, isLoading, calls, ui>>

(***************************************************************************)
(* Bounds of the model.                                                    *)
(***************************************************************************)
\* an utterance is the concatenation of at most MaxFrags fragments
MaxFrags == 2
\* processCommand is invoked at most MaxCalls times in one behaviour
MaxCalls == 1
\* with the whole App around it, processCommand is invoked at most
\* MaxInvocations times in one behaviour
MaxInvocations == 2
\* and startListening runs at most MaxListens times
MaxListens == 1

(***************************************************************************)
(* JavaScript string primitives.                                           *)
(***************************************************************************)
\* the letters toLowerCase changes
UpperToLower ==
    "A" :> "a" @@ "B" :> "b" @@ "C" :> "c" @@ "D" :> "d" @@ "E" :> "e" @@ "F" :> "f" @@
    "G" :> "g" @@ "H" :> "h" @@ "I" :> "i" @@ "J" :> "j" @@ "K" :> "k" @@ "L" :> "l" @@
    "M" :> "m" @@ "N" :> "n" @@ "O" :> "o" @@ "P" :> "p" @@ "Q" :> "q" @@ "R" :> "r" @@
    "S" :> "s" @@ "T" :> "t" @@ "U" :> "u" @@ "V" :> "v" @@ "W" :> "w" @@ "X" :> "x" @@
    "Y" :> "y" @@ "Z" :> "z"
Digits == {"0","1","2","3","4","5","6","7","8","9"}

\* \s of a regular expression, and the characters String.trim removes
IsSpace(c) == c \in {" ", "\t", "\n", "\r"}
\* the characters the regular expression dot does not match
IsLineTerminator(c) == c \in {"\n", "\r"}
\* \d of a regular expression
IsDigit(c) == c \in Digits

ToLowerChar(c) == IF c \in DOMAIN UpperToLower THEN UpperToLower[c] ELSE c

\* String.prototype.toLowerCase
RECURSIVE ToLowerCase(_)
ToLowerCase(s) ==
    IF s = <<>> THEN <<>>
    ELSE <<ToLowerChar(Head(s))>> \o ToLowerCase(Tail(s))

\* sub occurs in s at position i
OccursAt(s, sub, i) ==
    /\ i >= 1
    /\ i + Len(sub) - 1 <= Len(s)
    /\ \A k \in 1..Len(sub) : s[i + k - 1] = sub[k]

\* String.prototype.includes
Includes(s, sub) == \E i \in 1..(Len(s) + 1) : OccursAt(s, sub, i)

\* String.prototype.trim
Trim(s) ==
    LET keep == {i \in 1..Len(s) : ~IsSpace(s[i])}
    IN  IF keep = {} THEN <<>>
        ELSE LET lo == CHOOSE i \in keep : \A j \in keep : i <= j
                 hi == CHOOSE i \in keep : \A j \in keep : i >= j
             IN  SubSeq(s, lo, hi)

\* s.replace(/\D/g, '')
StripNonDigits(s) == SelectSeq(s, IsDigit)

\* /^\d+$/.test(s)
AllDigits(s) == Len(s) >= 1 /\ \A i \in 1..Len(s) : IsDigit(s[i])

\* Position where the group (.+) starts when word, matched just before
\* position j, is followed by \s+ : the greedy \s+ gives characters back
\* until a character the dot matches follows it. 0 when there is none.
GroupStart(s, j) ==
    LET run == {p \in (j + 1)..Len(s) :
                   /\ \A q \in j..(p - 1) : IsSpace(s[q])
                   /\ ~IsLineTerminator(s[p])}
    IN  IF run = {} THEN 0
        ELSE CHOOSE p \in run : \A q \in run : p >= q

\* End of the greedy group (.+) that starts at p
GroupEnd(s, p) ==
    CHOOSE e \in p..Len(s) :
        /\ \A q \in p..e : ~IsLineTerminator(s[q])
        /\ (e = Len(s) \/ IsLineTerminator(s[e + 1]))

\* s.match(/<word>\s+(.+)/): group 1 of the leftmost match, and the empty
\* string when there is no match (null and '' are both falsy in the test
\* "m && m[1]" the callers make).
MatchGroup1(s, word) ==
    LET starts == {i \in 1..Len(s) :
                      OccursAt(s, word, i) /\ GroupStart(s, i + Len(word)) # 0}
    IN  IF starts = {} THEN <<>>
        ELSE LET i == CHOOSE x \in starts : \A y \in starts : x <= y
                 p == GroupStart(s, i + Len(word))
             IN  SubSeq(s, p, GroupEnd(s, p))


(***************************************************************************)
(* Literals of the two sources.                                            *)
(***************************************************************************)
HELLO == <<"h","e","l","l","o">>
HI_DORO == <<"h","i"," ","d","o","r","o">>
CALL == <<"c","a","l","l">>
OPEN == <<"o","p","e","n">>
WHAT_IS_THE_TIME == <<"w","h","a","t"," ","i","s"," ","t","h","e"," ","t","i","m","e">>
CURRENT_TIME == <<"c","u","r","r","e","n","t"," ","t","i","m","e">>
WHAT_IS_THE_DATE == <<"w","h","a","t"," ","i","s"," ","t","h","e"," ","d","a","t","e">>
CURRENT_DATE == <<"c","u","r","r","e","n","t"," ","d","a","t","e">>
THANK_YOU == <<"t","h","a","n","k"," ","y","o","u">>
THANKS == <<"t","h","a","n","k","s">>
GOODBYE == <<"g","o","o","d","b","y","e">>
BYE == <<"b","y","e">>
YOUTUBE == <<"y","o","u","t","u","b","e">>
SETTINGS == <<"s","e","t","t","i","n","g","s">>

\* A response is a template literal of the source with the values
\* interpolated into it, in order.
Resp(text, args) == [text |-> text, args |-> args]

InitialResponse == Resp("Hello! I am Doro. How can I help you today?", <<>>)
Greeting == Resp("Hello there! How can I assist you?", <<>>)
CallPrompt ==
    Resp("Whom would you like me to call? Please say \"call [name or number]\".", <<>>)

\* src/Doro/App.js
WAttempt(target) ==
    Resp("Attempting to call ${target}... (Opening dialer. Please tap 'Call' to confirm.)",
         <<target>>)
WDialerFailed(target) ==
    Resp("Could not open dialer for ${target}. Please check the number.", <<target>>)
WSearching(target) == Resp("Searching for ${target} in your contacts...", <<target>>)
WFound(name, number) ==
    Resp("Found ${foundContact.name}. Calling ${numberToCall}... (Opening dialer. Please tap 'Call' to confirm.)",
         <<name, number>>)
WContactDialerFailed(name) ==
    Resp("Could not open dialer for ${foundContact.name}.", <<name>>)
WNoNumber(name) ==
    Resp("Found ${foundContact.name}, but no phone number available.", <<name>>)
WNotFound(target) ==
    Resp("Could not find a contact named ${target}. Please try again or say the number.",
         <<target>>)
\* WLookupError with nothing to say
WLookupErrorBlank(message) == Resp("", <<>>)
WLookupError(message) ==
    Resp("An error occurred while searching contacts: ${error.message}.", <<message>>)
WNeedPermission ==
    Resp("To call by name, I need contacts permission. Please enable it in settings.", <<>>)
\* WFallback with the text of the older component
WFallbackStale ==
    Resp("I'm not sure how to handle that command. Can you please rephrase?", <<>>)
WFallback ==
    Resp("I'm currently focused on making calls. How can I help you with a call?", <<>>)

\* src/unnamed/part_000
VAttempt(contact) ==
    Resp("Attempting to call ${contact}... (This will open your phone's dialer if a number is detected.)",
         <<contact>>)
VDialerFailed(contact) ==
    Resp("Could not open dialer for ${contact}. Please check the number.", <<contact>>)
VNoValidNumber(contact) ==
    Resp("Could not find a valid number for ${contact}. Please specify a number or a contact with a known number.",
         <<contact>>)
VOpenSimulated(appName) ==
    Resp("Simulating opening ${appName}... (Actual app launch depends on deep link availability.)",
         <<appName>>)
VOpenSettingsIos(appName) ==
    Resp("Simulating opening ${appName}... (Actual app launch depends on deep link availability.) Opening settings is not directly supported on iOS via deep link.",
         <<appName>>)
VOpenOther(appName) ==
    Resp("Simulating opening ${appName}... (Actual app launch depends on deep link availability.) I can only simulate opening common apps or use specific deep links.",
         <<appName>>)
OpenPrompt ==
    Resp("Which application would you like me to open? Please say \"open [app name]\".", <<>>)
VTime(now) == Resp("The current time is ${now.toLocaleTimeString()}.", <<now>>)
VDate(now) == Resp("Today's date is ${now.toLocaleDateString()}.", <<now>>)
VThanks == Resp("You're welcome! Is there anything else?", <<>>)
VGoodbye == Resp("Goodbye! Have a great day!", <<>>)
VFallback ==
    Resp("I'm not sure how to handle that command. Can you please rephrase?", <<>>)

YoutubeDeepLink == "vnd.youtube://"
YoutubeWeb == "https://m.youtube.com"
OpenSettings == "Linking.openSettings()"


(***************************************************************************)
(* The world outside: what the user may say, what the contact directory    *)
(* may answer, what the clock may show.                                    *)
(***************************************************************************)
Fragments == {
    <<"H","e","l","l","o"," ">>,
    <<"h","i"," ","d","o","r","o">>,
    <<"c","a","l","l"," ">>,
    <<"C","a","l","l">>,
    <<"o","p","e","n"," ">>,
    <<" ">>,
    <<"5","5","5","1","2","3","4","5","6","7">>,
    <<"5","5","5","-","1","2","3","4">>,
    <<"5","5","5","-","1","2">>,
    <<"B","o","b">>,
    <<"y","o","u","t","u","b","e">>,
    <<"s","e","t","t","i","n","g","s">>,
    <<"t","h","a","n","k","s">>,
    <<"b","y","e">>,
    <<"c","u","r","r","e","n","t"," ","t","i","m","e">>,
    <<"w","h","a","t"," ","i","s"," ","t","h","e"," ","d","a","t","e">> }

RECURSIVE Concats(_)
Concats(n) ==
    IF n = 0 THEN {<<>>}
    ELSE LET shorter == Concats(n - 1)
         IN  shorter \cup {u \o f : u \in shorter, f \in Fragments}

Utterances == Concats(MaxFrags)

Bob == [name |-> <<"B","o","b">>,
        phoneNumbers |-> << <<"5","5","5","-","0","1","0","0">>,
                            <<"5","5","5","0","1","9","9">> >>]
Alice == [name |-> <<"A","l","i","c","e">>,
          phoneNumbers |-> << <<"5","5","5","0","1","2","3">> >>]
Carol == [name |-> <<"C","a","r","o","l">>, phoneNumbers |-> <<>>]

\* the values Contacts.getContactsAsync may resolve to
DirectoryResults == { <<>>, <<Bob, Alice>>, <<Carol, Alice>> }

\* error.message of a rejected Contacts.getContactsAsync
LookupFailure == <<"d","e","n","i","e","d">>

\* what toLocaleTimeString / toLocaleDateString of new Date() may give
ClockStrings == { <<"9",":","0","0">>, <<"9",":","0","1">> }


(***************************************************************************)
(* processCommand.  One record per invocation: its locals, where it stands *)
(* (pc), and what it has asked of the outside so far.                      *)
(***************************************************************************)
NewCall(cmd) ==
    [cmd         |-> cmd,
     granted     |-> contactsPermissionGranted,  \* the value the closure sees
     pc          |-> "running",
     newResponse |-> Resp("", <<>>),             \* let newResponse = ''
     target      |-> <<>>,
     contactName |-> <<>>,
     lookups     |-> <<>>,   \* name filters given to Contacts.getContactsAsync
     lookup      |-> "none", \* that promise: none, pending, resolved, rejected
     data        |-> <<>>,   \* const { data } = await Contacts.getContactsAsync
     now         |-> <<>>,   \* new Date(), where a rule reads the clock
     dials       |-> <<>>,   \* what follows "tel:" in Linking.openURL
     dial        |-> "none", \* that promise: none, pending, resolved, rejected
     opens       |-> <<>>,   \* other Linking.openURL / openSettings requests
     deepLink    |-> "none", \* the promise of openURL('vnd.youtube://')
     alerts      |-> 0,      \* Alert.alert
     writes      |-> <<>>,   \* setResponse
     speaks      |-> <<>>,   \* Speech.speak
     unhandled   |-> FALSE]  \* a promise rejected with no handler

\* setResponse(newResponse); setIsLoading(false); Speech.speak(newResponse)
Finish(c, r, pc) ==
    [c EXCEPT !.newResponse = r,
              !.writes = Append(@, r),
              !.speaks = Append(@, r),
              !.pc = pc]

\* IsGreeting with the second trigger phrase forgotten
IsGreetingHelloOnly(lowerCmd) == Includes(lowerCmd, HELLO)

\* IsGreeting answering the first command of a run only
IsGreetingFirstOnly(lowerCmd) ==
    calls = <<>> /\ (Includes(lowerCmd, HELLO) \/ Includes(lowerCmd, HI_DORO))

IsGreeting(lowerCmd) == Includes(lowerCmd, HELLO) \/ Includes(lowerCmd, HI_DORO)

\* the if / else-if chain of src/Doro/App.js
WebViewRule(lowerCmd) ==
    IF IsGreeting(lowerCmd) THEN "greeting"
    ELSE IF Includes(lowerCmd, CALL) THEN "call"
    ELSE "fallback"

\* VoiceRule with the open test placed before the call test
VoiceRuleOpenFirst(lowerCmd) ==
    IF IsGreeting(lowerCmd) THEN "greeting"
    ELSE IF Includes(lowerCmd, OPEN) THEN "open"
    ELSE IF Includes(lowerCmd, CALL) THEN "call"
    ELSE IF Includes(lowerCmd, WHAT_IS_THE_TIME) \/ Includes(lowerCmd, CURRENT_TIME)
        THEN "time"
    ELSE IF Includes(lowerCmd, WHAT_IS_THE_DATE) \/ Includes(lowerCmd, CURRENT_DATE)
        THEN "date"
    ELSE IF Includes(lowerCmd, THANK_YOU) \/ Includes(lowerCmd, THANKS) THEN "thanks"
    ELSE IF Includes(lowerCmd, GOODBYE) \/ Includes(lowerCmd, BYE) THEN "goodbye"
    ELSE "fallback"

\* the if / else-if chain of src/unnamed/part_000
VoiceRule(lowerCmd) ==
    IF IsGreeting(lowerCmd) THEN "greeting"
    ELSE IF Includes(lowerCmd, CALL) THEN "call"
    ELSE IF Includes(lowerCmd, OPEN) THEN "open"
    ELSE IF Includes(lowerCmd, WHAT_IS_THE_TIME) \/ Includes(lowerCmd, CURRENT_TIME)
        THEN "time"
    ELSE IF Includes(lowerCmd, WHAT_IS_THE_DATE) \/ Includes(lowerCmd, CURRENT_DATE)
        THEN "date"
    ELSE IF Includes(lowerCmd, THANK_YOU) \/ Includes(lowerCmd, THANKS) THEN "thanks"
    ELSE IF Includes(lowerCmd, GOODBYE) \/ Includes(lowerCmd, BYE) THEN "goodbye"
    ELSE "fallback"

\* phoneNumberDigits.length >= 7 && /^\d+$/.test(phoneNumberDigits)
IsPhoneNumber(phoneNumberDigits) ==
    Len(phoneNumberDigits) >= 7 /\ AllDigits(phoneNumberDigits)

\* phoneNumber.length > 0
NumberDetected(phoneNumber) == Len(phoneNumber) > 0

\* DialString with the non-digit characters left in
DialStringRaw(target) == target

\* the number handed to the dialer for a target taken from the utterance
DialString(target) == StripNonDigits(target)

\* ContactDialString taking the last number of the contact
ContactDialStringLast(foundContact) ==
    foundContact.phoneNumbers[Len(foundContact.phoneNumbers)]

\* the number handed to the dialer for a contact: phoneNumbers[0].number
ContactDialString(foundContact) == foundContact.phoneNumbers[1]

\* the call branch of src/Doro/App.js, up to the await or to the end
WebViewCall(c, lowerCmd) ==
    LET callMatch == MatchGroup1(lowerCmd, CALL)
        target == Trim(callMatch)
        phoneNumberDigits == DialString(target)
    IN  IF callMatch # <<>>
        THEN IF IsPhoneNumber(phoneNumberDigits)
             THEN Finish([c EXCEPT !.target = target,
                                   !.dials = Append(@, phoneNumberDigits),
                                   !.dial = "pending"],
                         WAttempt(target), "dialPending")
             ELSE IF c.granted
             THEN [c EXCEPT !.target = target,
                            !.newResponse = WSearching(target),
                            !.writes = Append(@, WSearching(target)),
                            !.speaks = Append(@, WSearching(target)),
                            !.lookups = Append(@, target),
                            !.lookup = "pending",
                            !.pc = "awaitContacts"]
             ELSE Finish([c EXCEPT !.target = target, !.alerts = @ + 1],
                         WNeedPermission, "done")
        ELSE Finish(c, CallPrompt, "done")

\* processCommand of src/Doro/App.js, up to the await or to the end
WebViewProcess(c) ==
    LET lowerCmd == ToLowerCase(c.cmd)
        rule == WebViewRule(lowerCmd)
    IN  CASE rule = "greeting" -> Finish(c, Greeting, "done")
          [] rule = "call" -> WebViewCall(c, lowerCmd)
          [] OTHER -> Finish(c, WFallback, "done")

\* WebViewFound dialling every number of the contact
WebViewFoundDialAll(c, data) ==
    IF Len(data) > 0 /\ Len(data[1].phoneNumbers) > 0
    THEN Finish([c EXCEPT !.contactName = data[1].name,
                          !.dials = @ \o data[1].phoneNumbers,
                          !.dial = "pending"],
                WFound(data[1].name, data[1].phoneNumbers[1]),
                "contactDialPending")
    ELSE Finish(c, WNotFound(c.target), "done")

\* processCommand of src/Doro/App.js after Contacts.getContactsAsync resolved
WebViewFound(c, data) ==
    IF Len(data) > 0
    THEN LET foundContact == data[1]
         IN  IF Len(foundContact.phoneNumbers) > 0
             THEN LET numberToCall == ContactDialString(foundContact)
                  IN  Finish([c EXCEPT !.contactName = foundContact.name,
                                       !.dials = Append(@, numberToCall),
                                       !.dial = "pending"],
                             WFound(foundContact.name, numberToCall),
                             "contactDialPending")
             ELSE Finish(c, WNoNumber(foundContact.name), "done")
    ELSE Finish(c, WNotFound(c.target), "done")

\* the call branch of src/unnamed/part_000
VoiceCall(c, lowerCmd) ==
    LET contactMatch == MatchGroup1(lowerCmd, CALL)
        contact == Trim(contactMatch)
        phoneNumber == DialString(contact)
    IN  IF contactMatch # <<>>
        THEN IF NumberDetected(phoneNumber)
             THEN Finish([c EXCEPT !.target = contact,
                                   !.dials = Append(@, phoneNumber),
                                   !.dial = "pending"],
                         VAttempt(contact), "dialPending")
             ELSE Finish([c EXCEPT !.target = contact],
                         VNoValidNumber(contact), "done")
        ELSE Finish(c, CallPrompt, "done")

\* the open branch of src/unnamed/part_000
VoiceOpen(c, lowerCmd) ==
    LET appMatch == MatchGroup1(lowerCmd, OPEN)
        appName == Trim(appMatch)
    IN  IF appMatch # <<>>
        THEN IF Includes(appName, YOUTUBE)
             THEN Finish([c EXCEPT !.target = appName,
                                   !.opens = Append(@, YoutubeDeepLink),
                                   !.deepLink = "pending"],
                         VOpenSimulated(appName), "deepLinkPending")
             ELSE IF Includes(appName, SETTINGS)
             THEN IF platform = "android"
                  THEN Finish([c EXCEPT !.target = appName,
                                        !.opens = Append(@, OpenSettings)],
                              VOpenSimulated(appName), "settingsPending")
                  ELSE Finish([c EXCEPT !.target = appName],
                              VOpenSettingsIos(appName), "done")
             ELSE Finish([c EXCEPT !.target = appName], VOpenOther(appName), "done")
        ELSE Finish(c, OpenPrompt, "done")

\* processCommand of src/unnamed/part_000
VoiceProcess(c, now) ==
    LET lowerCmd == ToLowerCase(c.cmd)
        rule == VoiceRule(lowerCmd)
    IN  CASE rule = "greeting" -> Finish(c, Greeting, "done")
          [] rule = "call" -> VoiceCall(c, lowerCmd)
          [] rule = "open" -> VoiceOpen(c, lowerCmd)
          [] rule = "time" -> Finish([c EXCEPT !.now = now], VTime(now), "done")
          [] rule = "date" -> Finish([c EXCEPT !.now = now], VDate(now), "done")
          [] rule = "thanks" -> Finish(c, VThanks, "done")
          [] rule = "goodbye" -> Finish(c, VGoodbye, "done")
          [] OTHER -> Finish(c, VFallback, "done")

Last(s) == s[Len(s)]

(***************************************************************************)
(* Initial state and actions.                                              *)
(***************************************************************************)
\* the useState initial values of the plumbing
UiAtMount ==
    /\ command = <<>>
    /\ isListening = FALSE
    /\ isSpeaking = FALSE
    /\ nativeMicPermissionGranted = FALSE
    /\ webViewMicPermissionGranted = FALSE
    /\ session = "idle"
    /\ stopRequest = "none"
    /\ listens = 0

Init ==
    /\ variant \in {"webview", "voice"}
    \* Platform.OS is read by the open rule of part_000 only
    /\ platform \in IF variant = "voice" THEN {"ios", "android"} ELSE {"android"}
    /\ utterance \in Utterances
    /\ contactsRequest = IF variant = "webview" THEN "pending" ELSE "none"
    /\ contactsPermissionGranted = FALSE
    /\ response = InitialResponse
    /\ isLoading = FALSE
    /\ calls = <<>>
    /\ UiAtMount
    /\ micRequest = "none"
    /\ webView = "none"
    /\ playbacks = 0

\* the mount effect of src/Doro/App.js: Contacts.requestPermissionsAsync settles
ContactsPermissionResult(granted) ==
    /\ contactsRequest = "pending"
    /\ contactsRequest' = "settled"
    /\ contactsPermissionGranted' = granted
    /\ UNCHANGED <<variant, platform, utterance, response, isLoading, calls>>

\* processCommand(cmd) is called and runs to its first await or to its end
ProcessCommand(cmd, now) ==
    /\ LET c == IF variant = "webview"
                THEN WebViewProcess(NewCall(cmd))
                ELSE VoiceProcess(NewCall(cmd), now)
       IN  /\ calls' = Append(calls, c)
           /\ response' = Last(c.writes)
           /\ isLoading' = IF c.pc = "awaitContacts" THEN isLoading ELSE FALSE
    /\ UNCHANGED <<variant, platform, utterance, contactsRequest,
                   contactsPermissionGranted>>

\* Contacts.getContactsAsync resolves and processCommand runs to its end
ContactsReturn(i, data) ==
    /\ calls[i].pc = "awaitContacts"
    /\ LET c == WebViewFound([calls[i] EXCEPT !.lookup = "resolved",
                                              !.data = data], data)
       IN  /\ calls' = [calls EXCEPT ![i] = c]
           /\ response' = c.newResponse
           /\ isLoading' = FALSE
    /\ UNCHANGED <<variant, platform, utterance, contactsRequest,
                   contactsPermissionGranted>>

\* Contacts.getContactsAsync rejects: the catch block, then the end
ContactsThrow(i) ==
    /\ calls[i].pc = "awaitContacts"
    /\ LET c == Finish([calls[i] EXCEPT !.lookup = "rejected"],
                       WLookupError(LookupFailure), "done")
       IN  /\ calls' = [calls EXCEPT ![i] = c]
           /\ response' = c.newResponse
           /\ isLoading' = FALSE
    /\ UNCHANGED <<variant, platform, utterance, contactsRequest,
                   contactsPermissionGranted>>

\* Linking.openURL('tel:...') resolves: no handler runs
DialResolved(i) ==
    /\ calls[i].pc \in {"dialPending", "contactDialPending"}
    /\ calls' = [calls EXCEPT ![i].pc = "done", ![i].dial = "resolved"]
    /\ UNCHANGED <<variant, platform, utterance, contactsRequest,
                   contactsPermissionGranted, response, isLoading>>

\* DialFailure writing the response of the command once more
DialFailureRepeatsResponse(c) == c.newResponse

\* the message the catch handler of a failed dial writes and speaks
DialFailure(c) ==
    IF c.pc = "contactDialPending" THEN WContactDialerFailed(c.contactName)
    ELSE IF variant = "webview" THEN WDialerFailed(c.target)
    ELSE VDialerFailed(c.target)

\* Linking.openURL('tel:...') rejects: the catch handler
DialRejected(i) ==
    /\ calls[i].pc \in {"dialPending", "contactDialPending"}
    /\ LET r == DialFailure(calls[i])
       IN  /\ calls' = [calls EXCEPT ![i].pc = "done",
                                     ![i].dial = "rejected",
                                     ![i].writes = Append(@, r),
                                     ![i].speaks = Append(@, r)]
           /\ response' = r
    /\ UNCHANGED <<variant, platform, utterance, contactsRequest,
                   contactsPermissionGranted, isLoading>>

\* DeepLinkResolved with the web fallback chained on success as well
DeepLinkResolvedOpensWeb(i) ==
    /\ calls[i].pc = "deepLinkPending"
    /\ calls' = [calls EXCEPT ![i].pc = "webPending",
                              ![i].deepLink = "resolved",
                              ![i].opens = Append(@, YoutubeWeb)]
    /\ UNCHANGED <<variant, platform, utterance, contactsRequest,
                   contactsPermissionGranted, response, isLoading>>

\* Linking.openURL('vnd.youtube://') resolves
DeepLinkResolved(i) ==
    /\ calls[i].pc = "deepLinkPending"
    /\ calls' = [calls EXCEPT ![i].pc = "done", ![i].deepLink = "resolved"]
    /\ UNCHANGED <<variant, platform, utterance, contactsRequest,
                   contactsPermissionGranted, response, isLoading>>

\* Linking.openURL('vnd.youtube://') rejects: the web fallback is opened
DeepLinkRejected(i) ==
    /\ calls[i].pc = "deepLinkPending"
    /\ calls' = [calls EXCEPT ![i].pc = "webPending",
                              ![i].deepLink = "rejected",
                              ![i].opens = Append(@, YoutubeWeb)]
    /\ UNCHANGED <<variant, platform, utterance, contactsRequest,
                   contactsPermissionGranted, response, isLoading>>

\* Linking.openURL('https://m.youtube.com') settles; nothing handles a rejection
WebOpenSettled(i, ok) ==
    /\ calls[i].pc = "webPending"
    /\ calls' = [calls EXCEPT ![i].pc = "done", ![i].unhandled = ~ok]
    /\ UNCHANGED <<variant, platform, utterance, contactsRequest,
                   contactsPermissionGranted, response, isLoading>>

\* Linking.openSettings() settles; a rejection is only logged
SettingsSettled(i) ==
    /\ calls[i].pc = "settingsPending"
    /\ calls' = [calls EXCEPT ![i].pc = "done"]
    /\ UNCHANGED <<variant, platform, utterance, contactsRequest,
                   contactsPermissionGranted, response, isLoading>>

Next ==
    \/ \E granted \in BOOLEAN : ContactsPermissionResult(granted) /\ UNCHANGED ui
    \/ \E now \in ClockStrings :
          Len(calls) < MaxCalls /\ ProcessCommand(utterance, now) /\ UNCHANGED ui
    \/ \E i \in DOMAIN calls, data \in DirectoryResults :
          ContactsReturn(i, data) /\ UNCHANGED ui
    \/ \E i \in DOMAIN calls : ContactsThrow(i) /\ UNCHANGED ui
    \/ \E i \in DOMAIN calls : DialResolved(i) /\ UNCHANGED ui
    \/ \E i \in DOMAIN calls : DialRejected(i) /\ UNCHANGED ui
    \/ \E i \in DOMAIN calls : DeepLinkResolved(i) /\ UNCHANGED ui
    \/ \E i \in DOMAIN calls : DeepLinkRejected(i) /\ UNCHANGED ui
    \/ \E i \in DOMAIN calls, ok \in BOOLEAN : WebOpenSettled(i, ok) /\ UNCHANGED ui
    \/ \E i \in DOMAIN calls : SettingsSettled(i) /\ UNCHANGED ui

Spec == Init /\ [][Next]_vars


(***************************************************************************)
(* The App around processCommand: the text box, the microphone button, the *)
(* recognition session and the Speech.speak playbacks.                     *)
(***************************************************************************)
Listening == Resp("Listening...", <<>>)
StartingListening == Resp("Starting listening...", <<>>)
CannotListenNative ==
    Resp("Doro cannot listen right now. Native microphone permission is denied. Please enable it in settings.",
         <<>>)
Sorry(error) ==
    Resp("Sorry, I couldn't understand that. Error: ${error}. Please try again.", <<error>>)
NoSpeechApi ==
    Resp("Speech recognition is not supported in this WebView environment.", <<>>)
FailedToStart(message) == Resp("Failed to start listening: ${e.message}.", <<message>>)
FailedToStop(message) == Resp("Failed to stop listening: ${e.message}.", <<message>>)

\* what the user says or types with the whole App running
Phrases == {
    <<"h","e","l","l","o">>,
    <<"c","a","l","l"," ","5","5","5","1","2","3","4","5","6","7">>,
    <<"c","a","l","l"," ","b","o","b">>,
    <<"o","p","e","n"," ","y","o","u","t","u","b","e">>,
    <<"o","p","e","n"," ","s","e","t","t","i","n","g","s">>,
    <<"c","u","r","r","e","n","t"," ","t","i","m","e">> }

\* event.error of the recognizer, e.message of a rejected Voice.start / stop
RecognitionErrors == { <<"n","o","-","s","p","e","e","c","h">> }

\* the value every onDone / onError callback of Speech.speak writes
SpeakingOnDoneInverted == TRUE
SpeakingOnDone == FALSE

\* editable={!isListening && !isSpeaking && !isLoading}
Editable == ~isListening /\ ~isSpeaking /\ ~isLoading

\* IsMicButtonDisabled without the WebView's own permission
IsMicButtonDisabledNativeOnly ==
    IF variant = "webview"
    THEN isSpeaking \/ isLoading \/ ~nativeMicPermissionGranted
    ELSE isSpeaking \/ isLoading

\* the disabled property of the microphone button
IsMicButtonDisabled ==
    IF variant = "webview"
    THEN \/ isSpeaking
         \/ isLoading
         \/ ~nativeMicPermissionGranted
         \/ ~webViewMicPermissionGranted
    ELSE isSpeaking \/ isLoading

\* the Speech.speak calls made so far by the invocations cs
RECURSIVE Spoken(_)
Spoken(cs) == IF cs = <<>> THEN 0 ELSE Len(Head(cs).speaks) + Spoken(Tail(cs))

\* every Speech.speak of a step of processCommand begins a playback
Playback == playbacks' = playbacks + Spoken(calls') - Spoken(calls)

AppInit ==
    /\ variant \in {"webview", "voice"}
    /\ platform \in IF variant = "voice" THEN {"ios", "android"} ELSE {"android"}
    /\ utterance \in Phrases
    \* the mount effect asks for the contacts once the microphone is settled
    /\ contactsRequest = IF variant = "webview" THEN "queued" ELSE "none"
    /\ contactsPermissionGranted = FALSE
    /\ response = InitialResponse
    /\ isLoading = FALSE
    /\ calls = <<>>
    /\ UiAtMount
    /\ micRequest = IF variant = "webview" THEN "pending" ELSE "none"
    /\ webView = IF variant = "webview" THEN "loading" ELSE "none"
    \* src/Doro/App.js speaks the initial response on mount
    /\ playbacks = IF variant = "webview" THEN 1 ELSE 0

\* Audio.requestPermissionsAsync settles; Contacts.requestPermissionsAsync is called
MicPermissionResult(granted) ==
    /\ micRequest = "pending"
    /\ micRequest' = "settled"
    /\ nativeMicPermissionGranted' = granted
    /\ contactsRequest' = "pending"
    /\ UNCHANGED <<variant, platform, utterance, contactsPermissionGranted,
                   response, isLoading, calls, command, isListening, isSpeaking,
                   webViewMicPermissionGranted, webView, session, stopRequest,
                   playbacks, listens>>

\* the page of the WebView has run its script: with the Web Speech API it
\* defines its two functions, without it it posts no_speech_api
WebViewLoaded(supported) ==
    /\ webView = "loading"
    /\ IF supported
       THEN /\ webView' = "ready"
            /\ UNCHANGED <<response, isLoading, isListening>>
       ELSE /\ webView' = "unsupported"
            /\ response' = NoSpeechApi
            /\ isLoading' = FALSE
            /\ isListening' = FALSE
    /\ UNCHANGED <<variant, platform, utterance, contactsRequest,
                   contactsPermissionGranted, calls, command, isSpeaking,
                   nativeMicPermissionGranted, webViewMicPermissionGranted,
                   micRequest, session, stopRequest, playbacks, listens>>

\* onChangeText={setCommand}
ChangeText(text) ==
    /\ Editable
    /\ command' = text
    /\ UNCHANGED <<variant, platform, utterance, contactsRequest,
                   contactsPermissionGranted, response, isLoading, calls,
                   isListening, isSpeaking, nativeMicPermissionGranted,
                   webViewMicPermissionGranted, micRequest, webView, session,
                   stopRequest, playbacks, listens>>

\* handleTextInputSubmit
HandleTextInputSubmit(now) ==
    /\ Editable
    /\ Trim(command) # <<>>
    /\ ProcessCommand(command, now)
    /\ Playback
    /\ UNCHANGED <<command, isListening, isSpeaking, nativeMicPermissionGranted,
                   webViewMicPermissionGranted, micRequest, webView, session,
                   stopRequest, listens>>

\* onWebViewPermissionRequest for the microphone
OnWebViewPermissionRequest == nativeMicPermissionGranted

\* what window.startWebViewSpeechRecognition, or the injected script without
\* it, makes of the session
SessionAfterInjectedStart ==
    IF webView = "ready"
    THEN IF session = "idle"
         THEN IF OnWebViewPermissionRequest THEN "active" ELSE "error"
         ELSE session
    ELSE "error"

\* startListening, from the microphone button while not listening
StartListening ==
    /\ ~IsMicButtonDisabled
    /\ ~isListening
    /\ listens' = listens + 1
    /\ IF variant = "voice"
       THEN /\ command' = <<>>
            /\ response' = Listening
            /\ isLoading' = TRUE
            /\ session' = "starting"
            /\ UNCHANGED webViewMicPermissionGranted
       ELSE IF nativeMicPermissionGranted
       THEN /\ command' = <<>>
            /\ response' = StartingListening
            /\ isLoading' = TRUE
            /\ session' = SessionAfterInjectedStart
            /\ webViewMicPermissionGranted' =
                  IF webView = "ready" /\ session = "idle"
                  THEN OnWebViewPermissionRequest
                  ELSE webViewMicPermissionGranted
       ELSE /\ response' = CannotListenNative
            /\ isLoading' = FALSE
            /\ UNCHANGED <<command, session, webViewMicPermissionGranted>>
    /\ UNCHANGED <<variant, platform, utterance, contactsRequest,
                   contactsPermissionGranted, calls, isListening, isSpeaking,
                   nativeMicPermissionGranted, micRequest, webView, stopRequest,
                   playbacks>>

\* stopListening, from the microphone button while listening
StopListening ==
    /\ ~IsMicButtonDisabled
    /\ isListening
    /\ IF variant = "voice"
       THEN /\ stopRequest = "none"
            /\ stopRequest' = "pending"
            /\ UNCHANGED <<isListening, isLoading>>
       ELSE /\ isListening' = FALSE
            /\ isLoading' = FALSE
            /\ UNCHANGED stopRequest
    /\ UNCHANGED <<variant, platform, utterance, contactsRequest,
                   contactsPermissionGranted, response, calls, command,
                   isSpeaking, nativeMicPermissionGranted,
                   webViewMicPermissionGranted, micRequest, webView, session,
                   playbacks, listens>>

\* await Voice.stop() settles: the rest of stopListening, or its catch
VoiceStopSettled(ok) ==
    /\ stopRequest = "pending"
    /\ stopRequest' = "none"
    /\ isListening' = FALSE
    /\ isLoading' = FALSE
    /\ IF ok
       THEN UNCHANGED <<response, playbacks>>
       ELSE /\ response' \in {FailedToStop(e) : e \in RecognitionErrors}
            /\ playbacks' = playbacks + 1
    /\ UNCHANGED <<variant, platform, utterance, contactsRequest,
                   contactsPermissionGranted, calls, command, isSpeaking,
                   nativeMicPermissionGranted, webViewMicPermissionGranted,
                   micRequest, webView, session, listens>>

\* await Voice.start('en-US') settles: nothing more, or the catch
VoiceStartSettled(ok) ==
    /\ session = "starting"
    /\ IF ok
       THEN /\ session' = "active"
            /\ UNCHANGED <<isListening, isLoading, response, playbacks>>
       ELSE /\ session' = "idle"
            /\ isListening' = FALSE
            /\ isLoading' = FALSE
            /\ response' \in {FailedToStart(e) : e \in RecognitionErrors}
            /\ playbacks' = playbacks + 1
    /\ UNCHANGED <<variant, platform, utterance, contactsRequest,
                   contactsPermissionGranted, calls, command, isSpeaking,
                   nativeMicPermissionGranted, webViewMicPermissionGranted,
                   micRequest, webView, stopRequest, listens>>

\* Voice.onSpeechStart / message speech_start
SpeechStart ==
    /\ session = "active"
    /\ session' = "hearing"
    /\ isListening' = TRUE
    /\ response' = Listening
    /\ isLoading' = FALSE
    /\ UNCHANGED <<variant, platform, utterance, contactsRequest,
                   contactsPermissionGranted, calls, command, isSpeaking,
                   nativeMicPermissionGranted, webViewMicPermissionGranted,
                   micRequest, webView, stopRequest, playbacks, listens>>

\* Voice.onSpeechResults / message speech_result
SpeechResults(transcript, now) ==
    /\ session \in {"active", "hearing"}
    /\ command' = transcript
    /\ ProcessCommand(transcript, now)
    /\ Playback
    /\ UNCHANGED <<isListening, isSpeaking, nativeMicPermissionGranted,
                   webViewMicPermissionGranted, micRequest, webView, session,
                   stopRequest, listens>>

\* SpeechError that keeps the loading indicator
SpeechErrorKeepsLoading(error) ==
    /\ session \in {"active", "hearing", "error"}
    /\ session' = "idle"
    /\ isListening' = FALSE
    /\ response' = Sorry(error)
    /\ playbacks' = playbacks + 1
    /\ UNCHANGED <<variant, platform, utterance, contactsRequest,
                   contactsPermissionGranted, calls, command, isSpeaking, isLoading,
                   nativeMicPermissionGranted, webViewMicPermissionGranted,
                   micRequest, webView, stopRequest, listens>>

\* Voice.onSpeechError / message speech_error
SpeechError(error) ==
    /\ session \in {"active", "hearing", "error"}
    /\ session' = "idle"
    /\ isListening' = FALSE
    /\ isLoading' = FALSE
    /\ response' = Sorry(error)
    /\ playbacks' = playbacks + 1
    /\ UNCHANGED <<variant, platform, utterance, contactsRequest,
                   contactsPermissionGranted, calls, command, isSpeaking,
                   nativeMicPermissionGranted, webViewMicPermissionGranted,
                   micRequest, webView, stopRequest, listens>>

\* Voice.onSpeechEnd / message speech_end
SpeechEnd ==
    /\ session \in {"active", "hearing"}
    /\ session' = "idle"
    /\ isListening' = FALSE
    /\ isLoading' = FALSE
    /\ UNCHANGED <<variant, platform, utterance, contactsRequest,
                   contactsPermissionGranted, response, calls, command,
                   isSpeaking, nativeMicPermissionGranted,
                   webViewMicPermissionGranted, micRequest, webView,
                   stopRequest, playbacks, listens>>

\* onDone / onError of a Speech.speak
PlaybackDone ==
    /\ playbacks > 0
    /\ playbacks' = playbacks - 1
    /\ isSpeaking' = SpeakingOnDone
    /\ UNCHANGED <<variant, platform, utterance, contactsRequest,
                   contactsPermissionGranted, response, isLoading, calls,
                   command, isListening, nativeMicPermissionGranted,
                   webViewMicPermissionGranted, micRequest, webView, session,
                   stopRequest, listens>>

\* a step of processCommand after its first leaves the plumbing alone but
\* for the playbacks it begins
Quiet ==
    UNCHANGED <<command, isListening, isSpeaking, nativeMicPermissionGranted,
                webViewMicPermissionGranted, micRequest, webView, session,
                stopRequest, listens>>

\* an event of the recognition facility about the session itself
SessionEvent ==
    \/ SpeechStart
    \/ \E error \in RecognitionErrors : SpeechError(error)
    \/ SpeechEnd

\* an event of the recognition facility
RecognitionEvent ==
    \/ SessionEvent
    \/ \E now \in ClockStrings :
          Len(calls) < MaxInvocations /\ SpeechResults(utterance, now)

AppNext ==
    \/ \E granted \in BOOLEAN : MicPermissionResult(granted)
    \/ \E granted \in BOOLEAN : ContactsPermissionResult(granted) /\ UNCHANGED ui
    \/ \E supported \in BOOLEAN : WebViewLoaded(supported)
    \/ \E text \in {<<>>, utterance} : ChangeText(text)
    \/ \E now \in ClockStrings :
          Len(calls) < MaxInvocations /\ HandleTextInputSubmit(now)
    \/ listens < MaxListens /\ StartListening
    \/ StopListening
    \/ \E ok \in BOOLEAN : VoiceStopSettled(ok)
    \/ \E ok \in BOOLEAN : VoiceStartSettled(ok)
    \/ RecognitionEvent
    \/ PlaybackDone
    \/ \E i \in DOMAIN calls, data \in DirectoryResults :
          ContactsReturn(i, data) /\ Playback /\ Quiet
    \/ \E i \in DOMAIN calls : ContactsThrow(i) /\ Playback /\ Quiet
    \/ \E i \in DOMAIN calls : DialResolved(i) /\ Playback /\ Quiet
    \/ \E i \in DOMAIN calls : DialRejected(i) /\ Playback /\ Quiet
    \/ \E i \in DOMAIN calls : DeepLinkResolved(i) /\ Playback /\ Quiet
    \/ \E i \in DOMAIN calls : DeepLinkRejected(i) /\ Playback /\ Quiet
    \/ \E i \in DOMAIN calls, ok \in BOOLEAN : WebOpenSettled(i, ok) /\ Playback /\ Quiet
    \/ \E i \in DOMAIN calls : SettingsSettled(i) /\ Playback /\ Quiet

AppSpec == AppInit /\ [][AppNext]_vars

\* The recognition facility settles every start it was asked for and does
\* not stay silent for ever while a session is open.  Results are delivered
\* a bounded number of times, so that fairness on the events about the
\* session is fairness on all its events.
AppLive ==
    /\ AppSpec
    /\ WF_vars(\E ok \in BOOLEAN : VoiceStartSettled(ok))
    /\ WF_vars(SessionEvent)


(***************************************************************************)
(* Properties.  They are stated on the utterance and on what an invocation *)
(* wrote and requested, not on the branch the model took.                  *)
(***************************************************************************)
Calls == {calls[i] : i \in DOMAIN calls}

\* In what follows lower is the lowercased utterance of an invocation.
HasGreetingTrigger(lower) == Includes(lower, HELLO) \/ Includes(lower, HI_DORO)
\* the text after "call" and whitespace: empty when nothing follows
CallArgument(lower) == MatchGroup1(lower, CALL)
DigitsOf(s) == SelectSeq(s, LAMBDA ch : ch \in Digits)
NoExternalAction(c) == c.dials = <<>> /\ c.opens = <<>> /\ c.lookups = <<>>

\* C1: an utterance whose lowercased form contains "hello" or "hi doro"
\* gets the greeting as its only response, in both variants, and requests
\* no dial, no open and no contact lookup, whatever else it contains.
C1_GreetingWins ==
    \A c \in Calls :
        HasGreetingTrigger(ToLowerCase(c.cmd)) =>
            /\ c.newResponse = Greeting
            /\ c.writes = <<Greeting>>
            /\ c.pc = "done"
            /\ NoExternalAction(c)

\* a greeting in capitals, in an utterance that also holds the call trigger
C1_Witness ==
    \E c \in Calls :
        /\ Includes(c.cmd, <<"H","e","l","l","o">>)
        /\ Includes(c.cmd, CALL)
        /\ response = Greeting

\* C2: when the call rule applies and the text after "call " holds a phone
\* number (at least 7 digits), exactly one dial is requested, its number
\* is that text with every non-digit removed, and the response names the
\* text.
C2_DialsStrippedNumber ==
    \A c \in Calls :
        LET lower == ToLowerCase(c.cmd)
            rest == Trim(CallArgument(lower))
            digits == DigitsOf(rest)
        IN  (~HasGreetingTrigger(lower) /\ Len(digits) >= 7) =>
                /\ c.dials = <<digits>>
                /\ c.newResponse = IF variant = "webview"
                                   THEN WAttempt(rest)
                                   ELSE VAttempt(rest)
                /\ c.lookups = <<>>

\* "call 555-1234": a number with a separator in it has been dialled
C2_Witness ==
    \E c \in Calls :
        /\ c.cmd = <<"c","a","l","l"," ","5","5","5","-","1","2","3","4">>
        /\ c.dials = << <<"5","5","5","1","2","3","4">> >>
        /\ variant = "webview"

\* C3: the text after "call " is dialled directly if and only if it holds at
\* least 7 digits; with fewer its digits are never dialled.
C3_SevenDigitRule ==
    \A c \in Calls :
        LET lower == ToLowerCase(c.cmd)
            arg == CallArgument(lower)
            d == DigitsOf(Trim(arg))
        IN  (~HasGreetingTrigger(lower) /\ arg # <<>>) =>
                /\ Len(d) >= 7 => c.dials = <<d>>
                /\ Len(d) < 7 => \A k \in DOMAIN c.dials : c.dials[k] # d

\* C4: a call target that is not a phone number, with no contact resolution
\* (permission not granted, or the variant without contacts), gets a
\* permission or clarification message, no dial and no contact lookup.
C4_NoDialWithoutContacts ==
    \A c \in Calls :
        LET lower == ToLowerCase(c.cmd)
            arg == CallArgument(lower)
            rest == Trim(arg)
        IN  (/\ ~HasGreetingTrigger(lower)
             /\ arg # <<>>
             /\ Len(DigitsOf(rest)) < 7
             /\ (variant = "voice" \/ ~c.granted)) =>
                /\ c.dials = <<>>
                /\ c.lookups = <<>>
                /\ c.newResponse \in {WNeedPermission, VNoValidNumber(rest)}

\* C5: in the contacts-enabled variant with the permission granted, a name
\* target causes exactly one lookup, filtered by the name; a dial is
\* requested only once the lookup has resolved, and then for the first
\* number of the first contact; no contact, or a first contact with no
\* number, gives an explanatory response and no dial.
C5_ContactLookup ==
    \A c \in Calls :
        LET lower == ToLowerCase(c.cmd)
            arg == CallArgument(lower)
            rest == Trim(arg)
        IN  (/\ variant = "webview"
             /\ c.granted
             /\ ~HasGreetingTrigger(lower)
             /\ arg # <<>>
             /\ Len(DigitsOf(rest)) < 7) =>
                /\ c.lookups = <<rest>>
                /\ c.lookup # "resolved" => c.dials = <<>>
                /\ c.lookup = "resolved" =>
                      IF c.data = <<>>
                      THEN c.dials = <<>> /\ c.newResponse = WNotFound(rest)
                      ELSE IF c.data[1].phoneNumbers = <<>>
                      THEN c.dials = <<>> /\ c.newResponse = WNoNumber(c.data[1].name)
                      ELSE c.dials = <<c.data[1].phoneNumbers[1]>>

\* the lookup returned two contacts, the first with two numbers, and a dial
\* has been requested
C5_Witness ==
    \E c \in Calls :
        /\ c.lookups = << <<"b","o","b">> >>
        /\ c.data = <<Bob, Alice>>
        /\ c.dials # <<>>

\* the rules a variant has, in the order the claims give them
RuleOrder(v) ==
    IF v = "voice"
    THEN <<"greeting", "call", "open", "time", "date", "thanks", "goodbye">>
    ELSE <<"greeting", "call">>

TriggersOf(rule) ==
    CASE rule = "greeting" -> {HELLO, HI_DORO}
      [] rule = "call" -> {CALL}
      [] rule = "open" -> {OPEN}
      [] rule = "time" -> {WHAT_IS_THE_TIME, CURRENT_TIME}
      [] rule = "date" -> {WHAT_IS_THE_DATE, CURRENT_DATE}
      [] rule = "thanks" -> {THANK_YOU, THANKS}
      [] rule = "goodbye" -> {GOODBYE, BYE}

\* the rules of variant v whose trigger the lowercased utterance contains
RulesHit(v, lower) ==
    {k \in DOMAIN RuleOrder(v) :
        \E t \in TriggersOf(RuleOrder(v)[k]) : Includes(lower, t)}

\* the earliest rule among hits, or the fallback
Earliest(v, hits) ==
    IF hits = {} THEN "fallback"
    ELSE RuleOrder(v)[CHOOSE k \in hits : \A j \in hits : k <= j]

FirstRule(v, lower) == Earliest(v, RulesHit(v, lower))

\* the response texts a rule can produce
TextsOf(rule) ==
    CASE rule = "greeting" -> {Greeting.text}
      [] rule = "call" ->
            {CallPrompt.text, WAttempt(<<>>).text, WDialerFailed(<<>>).text,
             WSearching(<<>>).text, WFound(<<>>, <<>>).text,
             WContactDialerFailed(<<>>).text, WNoNumber(<<>>).text,
             WNotFound(<<>>).text, WLookupError(<<>>).text, WNeedPermission.text,
             VAttempt(<<>>).text, VDialerFailed(<<>>).text, VNoValidNumber(<<>>).text}
      [] rule = "open" ->
            {OpenPrompt.text, VOpenSimulated(<<>>).text, VOpenSettingsIos(<<>>).text,
             VOpenOther(<<>>).text}
      [] rule = "time" -> {VTime(<<>>).text}
      [] rule = "date" -> {VDate(<<>>).text}
      [] rule = "thanks" -> {VThanks.text}
      [] rule = "goodbye" -> {VGoodbye.text}
      [] rule = "fallback" -> {VFallback.text, WFallback.text}

\* C6 as amended: an utterance that matches no rule of the variant gets that
\* variant's fixed fallback string ("I'm not sure how to handle that
\* command. ..." in the Voice variant, "I'm currently focused on making
\* calls. ..." in the WebView variant) and requests no external action.
C6_FallbackPerVariant ==
    \A c \in Calls :
        FirstRule(variant, ToLowerCase(c.cmd)) = "fallback" =>
            /\ c.newResponse.text =
                  IF variant = "voice"
                  THEN "I'm not sure how to handle that command. Can you please rephrase?"
                  ELSE "I'm currently focused on making calls. How can I help you with a call?"
            /\ c.newResponse.args = <<>>
            /\ c.writes = <<c.newResponse>>
            /\ NoExternalAction(c)

\* C6 as claimed: in either variant the fallback is the string beginning
\* "I'm not sure how to handle that".
C6_Original ==
    \A c \in Calls :
        FirstRule(variant, ToLowerCase(c.cmd)) = "fallback" =>
            /\ c.newResponse.text =
                  "I'm not sure how to handle that command. Can you please rephrase?"
            /\ NoExternalAction(c)

\* "thanks" in the WebView variant, which has no thanks rule
C6_Witness ==
    \E c \in Calls :
        /\ variant = "webview"
        /\ c.cmd = THANKS
        /\ response = WFallback

\* C7: in each variant the rules are tried in the order greeting, call,
\* open, time, date, thanks, goodbye, fallback (those the variant has), and
\* every response and every action of an invocation belongs to the first
\* rule whose trigger the utterance contains.
C7_FirstMatchWins ==
    \A c \in Calls :
        LET rule == FirstRule(variant, ToLowerCase(c.cmd))
        IN  /\ c.writes # <<>>
            /\ \A k \in DOMAIN c.writes : c.writes[k].text \in TextsOf(rule)
            /\ (c.dials # <<>> \/ c.lookups # <<>>) => rule = "call"
            /\ c.opens # <<>> => rule = "open"

\* "open call ": the triggers of two rules, answered by the call rule
C7_Witness ==
    \E c \in Calls :
        /\ variant = "voice"
        /\ c.cmd = <<"o","p","e","n"," ","c","a","l","l"," ">>
        /\ c.newResponse = CallPrompt

\* C8: an invocation requests at most one dial, never a dial and an open,
\* and at most one open, the YouTube deep link with its web fallback
\* counting as one.
C8_AtMostOneAction ==
    \A c \in Calls :
        /\ Len(c.dials) <= 1
        /\ ~(c.dials # <<>> /\ c.opens # <<>>)
        /\ c.opens \in {<<>>, <<YoutubeDeepLink>>, <<YoutubeDeepLink, YoutubeWeb>>,
                        <<OpenSettings>>}

\* a contact with two numbers has been found and dialled
C8_Witness ==
    \E c \in Calls :
        /\ c.data # <<>>
        /\ Len(c.data[1].phoneNumbers) = 2
        /\ Len(c.dials) = 1
        /\ c.pc = "done"

\* C9: every dial request carries a string made only of digits.
C9_DialsDigitsOnly ==
    \A c \in Calls : \A k \in DOMAIN c.dials : AllDigits(c.dials[k])

\* C10: when the call rule (or the open rule) applies and no argument
\* follows the trigger word and whitespace, the response is the rule's
\* clarifying prompt and no external action is requested.
C10_MissingArgumentPrompt ==
    \A c \in Calls :
        LET lower == ToLowerCase(c.cmd)
            rule == FirstRule(variant, lower)
        IN  /\ (rule = "call" /\ Trim(MatchGroup1(lower, CALL)) = <<>>) =>
                  c.newResponse = CallPrompt /\ NoExternalAction(c)
            /\ (rule = "open" /\ Trim(MatchGroup1(lower, OPEN)) = <<>>) =>
                  c.newResponse = OpenPrompt /\ NoExternalAction(c)

\* C11: for an utterance the open rule answers with an application name
\* containing "youtube", the first request is the deep link
\* vnd.youtube://, and the web URL https://m.youtube.com is requested if
\* and only if that deep-link request has failed: it is never the first
\* request, never requested while the deep link is pending and never after
\* the deep link succeeded.
C11_WebOnlyAfterDeepLinkFailed ==
    \A c \in Calls :
        LET lower == ToLowerCase(c.cmd)
        IN  (/\ variant = "voice"
             /\ ~HasGreetingTrigger(lower)
             /\ ~Includes(lower, CALL)
             /\ Includes(Trim(MatchGroup1(lower, OPEN)), YOUTUBE)) =>
                /\ c.deepLink # "none"
                /\ c.opens = IF c.deepLink = "rejected"
                             THEN <<"vnd.youtube://", "https://m.youtube.com">>
                             ELSE <<"vnd.youtube://">>
                /\ c.dials = <<>>

\* "open youtube": the deep link has succeeded, and nothing else was opened
C11_Witness ==
    \E c \in Calls :
        /\ c.cmd = <<"o","p","e","n"," ","y","o","u","t","u","b","e">>
        /\ c.deepLink = "resolved"
        /\ c.pc = "done"
        /\ c.opens = <<YoutubeDeepLink>>

(***************************************************************************)
(* Properties of processCommand inside the running App.                    *)
(***************************************************************************)
\* invocation i runs its last lines (setResponse, setIsLoading(false),
\* Speech.speak) in this step
Completes(i) ==
    /\ i \notin DOMAIN calls \/ calls[i].pc = "awaitContacts"
    /\ calls'[i].pc # "awaitContacts"

\* C12: whatever the utterance and whatever the contact lookup and the
\* dialer answer, every response an invocation writes is non-empty; the
\* step in which it runs to its end displays its response and leaves
\* isLoading false; and a contact lookup that throws ends the invocation
\* with the error response and no dial request.
C12_CompletesWithResponse ==
    /\ [](\A c \in Calls :
            /\ c.writes # <<>>
            /\ \A k \in DOMAIN c.writes : c.writes[k].text # ""
            /\ c.lookup = "rejected" =>
                  /\ c.pc = "done"
                  /\ c.newResponse.text =
                        "An error occurred while searching contacts: ${error.message}."
                  /\ Last(c.writes) = c.newResponse
                  /\ c.dials = <<>>)
    /\ [][\A i \in DOMAIN calls' :
             Completes(i) =>
                 /\ isLoading' = FALSE
                 /\ response' = calls'[i].newResponse
                 /\ response'.text # ""]_vars

\* the contact lookup of a spoken or typed "call bob" has thrown
C12_Witness ==
    \E c \in Calls :
        /\ c.lookup = "rejected"
        /\ c.lookups = << <<"b","o","b">> >>
        /\ response = WLookupError(LookupFailure)
        /\ isLoading = FALSE

SameInputs(c, d) ==
    /\ c.cmd = d.cmd
    /\ c.granted = d.granted
    /\ c.now = d.now
    /\ c.lookup = d.lookup
    /\ c.data = d.data
    /\ c.dial = d.dial
    /\ c.deepLink = d.deepLink
    /\ c.unhandled = d.unhandled
    /\ c.pc = d.pc

ListenSession == session \in {"starting", "active", "hearing"}

\* C15: a recognition session and a Speech.speak playback are never active
\* at the same time.
C15_ListenSpeakExclusive == ~(ListenSession /\ playbacks > 0)

\* C16: no invocation of processCommand starts while another one is
\* awaiting its contact lookup.
C16_OneInvocationInFlight ==
    [][Len(calls') > Len(calls) =>
          \A i \in DOMAIN calls : calls[i].pc # "awaitContacts"]_vars

\* C17: in the WebView variant startListening never runs: isListening and
\* webViewMicPermissionGranted stay false and no recognition session is
\* ever asked for.
C17_WebViewNeverListens ==
    variant = "webview" =>
        /\ isListening = FALSE
        /\ webViewMicPermissionGranted = FALSE
        /\ session = "idle"
        /\ listens = 0

\* the native permission is granted, the page is ready, nothing is loading
\* and commands have been typed: the microphone is still out of reach
C17_Witness ==
    /\ variant = "webview"
    /\ nativeMicPermissionGranted
    /\ webView = "ready"
    /\ ~isSpeaking /\ ~isLoading
    /\ calls # <<>>

C19_LoadingClears ==
    /\ [](isLoading => session \in {"starting", "active"})
    /\ isLoading ~> ~isLoading

\* startListening has raised isLoading and the session is open
C19_Witness == variant = "voice" /\ isLoading /\ session = "active"

====
